---- MODULE Spec2Model ----
(***************************************************************************)
(* Model of app.py: the GMS-5 / GOES-9 archive viewer.                     *)
(*                                                                         *)
(*   Spec         the Streamlit script: sessions that click "Generate",    *)
(*                the cached fetch_file, process_and_plot with its         *)
(*                finally block, and the display of the result.            *)
(*   SpecDecode   try_manual_reading applied to one raw file.              *)
(*   SpecResolve  the date parsing and coverage test that open fetch_file, *)
(*                applied to one form input.                               *)
(***************************************************************************)
EXTENDS Integers, Sequences, FiniteSets, TLC

VARIABLES
    ses,        \* per session: position in main() and the locals of the run
    cache,      \* st.cache_data store of fetch_file, by (year, month, day, hour)
    fs,         \* the scratch directories made by tempfile.mkdtemp
    nextDir,    \* names handed out by mkdtemp so far
    nreq,       \* clicks on "Generate Image" so far
    handed,     \* history: how many requests received a path in each directory
    renderedDirs, \* history: directories whose request returned an image path
    dIn, dOut,  \* SpecDecode: the raw file and the result of try_manual_reading
    rIn, rOut   \* SpecResolve: the form input and what fetch_file decides

vars == <<ses, cache, fs, nextDir, nreq, handed, renderedDirs, dIn, dOut, rIn, rOut>>
mainVars == <<ses, cache, fs, nextDir, nreq, handed, renderedDirs>>
pureVars == <<dIn, dOut, rIn, rOut>>

----------------------------------------------------------------------------
(* Bounds of the model *)

\* clicks on "Generate Image" over all sessions
MaxRequests == 2
\* raw files with 0..MaxSmallAvail bytes after the header are all enumerated
MaxSmallAvail == 40
\* raw files within MaxSlack bytes of each width*height product are enumerated
MaxSlack == 1

Sessions == {"u1", "u2"}
DirIds == 1..MaxRequests

----------------------------------------------------------------------------
(* Dates: datetime(year, month, day, hour) and its ordering *)

\* the form's ranges
YEAR_MIN == 1995
YEAR_MAX == 2005
MONTH_MAX == 12
DAY_MAX == 31
HOUR_MAX == 23

GMS5_START_DATE == <<1995, 6, 13, 6>>
GMS5_END_DATE == <<2003, 5, 22, 0>>
GOES9_START_DATE == <<2003, 5, 22, 1>>
GOES9_END_DATE == <<2005, 6, 28, 2>>

IsLeap(y) == (y % 4 = 0 /\ y % 100 # 0) \/ y % 400 = 0

DaysInMonth(y, m) ==
    IF m = 2 THEN (IF IsLeap(y) THEN 29 ELSE 28)
    ELSE IF m \in {4, 6, 9, 11} THEN 30 ELSE 31

\* datetime(...) raises ValueError on a day the month does not have
ValidDate(t) == t[3] <= DaysInMonth(t[1], t[2])

\* datetime.__lt__ : field by field, most significant first
DtLt(a, b) ==
    \/ a[1] < b[1]
    \/ a[1] = b[1] /\ a[2] < b[2]
    \/ a[1] = b[1] /\ a[2] = b[2] /\ a[3] < b[3]
    \/ a[1] = b[1] /\ a[2] = b[2] /\ a[3] = b[3] /\ a[4] < b[4]

DtLe(a, b) == a = b \/ DtLt(a, b)

\* Coverage with the end of the first window excluded
Coverage_ExclusiveEnd(request_time) ==
    IF DtLt(request_time, GMS5_START_DATE) \/ DtLt(GOES9_END_DATE, request_time)
    THEN "NoCoverage"
    ELSE IF DtLe(GMS5_START_DATE, request_time) /\ DtLt(request_time, GMS5_END_DATE)
    THEN "GMS5"
    ELSE IF DtLe(GOES9_START_DATE, request_time) /\ DtLe(request_time, GOES9_END_DATE)
    THEN "GOES9"
    ELSE "NoCoverage"

\* the coverage test of fetch_file
Coverage(request_time) ==
    IF DtLt(request_time, GMS5_START_DATE) \/ DtLt(GOES9_END_DATE, request_time)
    THEN "NoCoverage"
    ELSE IF DtLe(GMS5_START_DATE, request_time) /\ DtLe(request_time, GMS5_END_DATE)
    THEN "GMS5"
    ELSE IF DtLe(GOES9_START_DATE, request_time) /\ DtLe(request_time, GOES9_END_DATE)
    THEN "GOES9"
    ELSE "NoCoverage"

\* the first lines of fetch_file: parse the date, then test the coverage
FetchPrefix(t) == IF ~ValidDate(t) THEN "GeneralError" ELSE Coverage(t)

----------------------------------------------------------------------------
(* try_manual_reading *)

DEFAULT_SIZE == 2366
MAX_DIM == 5000
MIN_DIM == 100
MIN_HEIGHT == 100
HEADER_PROBE == 12
header_size == 352

\* struct.unpack('>H', two bytes)
U16BE(hi, lo) == hi * 256 + lo

Min(a, b) == IF a < b THEN a ELSE b

RECURSIVE SqrtSearch(_, _, _)
SqrtSearch(n, lo, hi) ==
    IF lo >= hi THEN lo
    ELSE LET mid == (lo + hi + 1) \div 2
         IN IF mid * mid <= n THEN SqrtSearch(n, mid, hi)
            ELSE SqrtSearch(n, lo, mid - 1)

\* IntSqrt rounding to the nearest integer instead of truncating
IntSqrt_Rounded(n) ==
    LET r == SqrtSearch(n, 0, Min(n, 46340))
    IN IF n - r * r > r THEN r + 1 ELSE r

\* int(np.sqrt(n)): the float64 root is exact enough below 2^52, the cast truncates
IntSqrt(n) == SqrtSearch(n, 0, Min(n, 46340))

\* HeaderGeometry with the plausibility test applied to the width alone
HeaderGeometry_WidthOnly(f) ==
    IF f.len > HEADER_PROBE
    THEN LET width == U16BE(f.hdr[1], f.hdr[2])
             height == U16BE(f.hdr[3], f.hdr[4])
         IN IF width > MAX_DIM \/ width < MIN_DIM
            THEN <<DEFAULT_SIZE, DEFAULT_SIZE>>
            ELSE <<width, height>>
    ELSE <<DEFAULT_SIZE, DEFAULT_SIZE>>

\* the (width, height) in effect after the header has been looked at
HeaderGeometry(f) ==
    IF f.len > HEADER_PROBE
    THEN LET width == U16BE(f.hdr[1], f.hdr[2])
             height == U16BE(f.hdr[3], f.hdr[4])
         IN IF width > MAX_DIM \/ height > MAX_DIM \/ width < MIN_DIM \/ height < MIN_DIM
            THEN <<DEFAULT_SIZE, DEFAULT_SIZE>>
            ELSE <<width, height>>
    ELSE <<DEFAULT_SIZE, DEFAULT_SIZE>>

None == [ok |-> FALSE, height |-> 0, width |-> 0, consumed |-> 0]

\* image_array[:count].reshape(height, width): the slice stops at the end of the
\* array, and reshape raises (caught: None) unless the sizes agree
Reshape(available_pixels, count, height, width) ==
    LET taken == Min(count, available_pixels)
    IN IF taken = height * width
       THEN [ok |-> TRUE, height |-> height, width |-> width, consumed |-> taken]
       ELSE None

\* try_manual_reading without the square fallback for a short file
try_manual_reading_NoSquare(f) ==
    LET width == HeaderGeometry(f)[1]
        height == HeaderGeometry(f)[2]
    IN IF f.len > header_size
       THEN LET available_pixels == f.len - header_size
                target_pixels == width * height
            IN IF available_pixels >= target_pixels
               THEN Reshape(available_pixels, target_pixels, height, width)
               ELSE LET height2 == available_pixels \div width
                    IN Reshape(available_pixels, height2 * width, height2, width)
       ELSE None

try_manual_reading(f) ==
    LET width == HeaderGeometry(f)[1]
        height == HeaderGeometry(f)[2]
    IN IF f.len > header_size
       THEN LET available_pixels == f.len - header_size
                target_pixels == width * height
            IN IF available_pixels >= target_pixels
               THEN Reshape(available_pixels, target_pixels, height, width)
               ELSE LET height2 == available_pixels \div width
                    IN IF height2 < MIN_HEIGHT
                       THEN LET side == IntSqrt(available_pixels)
                            IN Reshape(available_pixels, side * side, side, side)
                       ELSE Reshape(available_pixels, height2 * width, height2, width)
       ELSE None

----------------------------------------------------------------------------
(* The script: main(), the cached fetch_file, process_and_plot *)

NoTime == <<0, 0, 0, 0>>

\* the dates the sessions of Spec ask for: one in each window, one before the
\* first window, one that is no calendar date
MainTimes == {<<2000, 1, 1, 0>>, <<2004, 1, 1, 0>>, <<1995, 6, 13, 5>>, <<2001, 2, 30, 0>>}

ZeroHdr == <<0, 0, 0, 0>>
\* the raw files the server of Spec holds: a bare header, and a 100 x 100 image
HeaderOnlyFile == [len |-> header_size, hdr |-> ZeroHdr]
SmallImageFile == [len |-> header_size + MIN_DIM * MIN_DIM, hdr |-> <<0, 100, 0, 100>>]
MainFiles == {HeaderOnlyFile, SmallImageFile}

\* what the FTP server and the archive can answer once the date is covered
FetchErrors == {"DirectoryNotFound", "FileNotFound", "EmptyDownload",
                "MemberNotFound", "FtpError", "TarError", "UnexpectedError"}

\* the files fetch_file has written to temp_dir when it returns that error
LeftBehind(err) ==
    CASE err \in {"DirectoryNotFound", "FtpError"} -> {}
      [] err \in {"FileNotFound", "EmptyDownload", "MemberNotFound", "TarError"} -> {"tar"}
      [] OTHER -> {"tar", "gz"}

NoDir == [exists |-> FALSE, names |-> {}, img |-> HeaderOnlyFile]
NoEntry == [present |-> FALSE, path |-> 0, satellite |-> "None", error |-> "None"]

\* what the external reader hands back when it succeeds
SatpyGrid == [ok |-> TRUE, height |-> DEFAULT_SIZE, width |-> DEFAULT_SIZE,
              consumed |-> DEFAULT_SIZE * DEFAULT_SIZE]

Idle == [pc |-> "idle", req |-> NoTime, file_path |-> 0, satellite |-> "None",
         error_message |-> "None", ir1_data |-> None, ret |-> "None", exc |-> "None",
         hit |-> FALSE, made |-> 0, prior |-> FALSE, rawAtEntry |-> FALSE,
         primary |-> "notrun", manualCalls |-> 0, manualNone |-> FALSE,
         renders |-> 0, errorsShown |-> 0, shown |-> FALSE]

RawExists(d) == d # 0 /\ fs[d].exists /\ "img" \in fs[d].names
DirExists(d) == d # 0 /\ fs[d].exists

MainInit ==
    /\ ses = [s \in Sessions |-> Idle]
    /\ cache = [t \in MainTimes |-> NoEntry]
    /\ fs = [d \in DirIds |-> NoDir]
    /\ nextDir = 0
    /\ nreq = 0
    /\ handed = [d \in DirIds |-> 0]
    /\ renderedDirs = {}

NotDecoded == [done |-> FALSE, grid |-> None]

PureIdle ==
    /\ dIn = HeaderOnlyFile
    /\ dOut = NotDecoded
    /\ rIn = NoTime
    /\ rOut = "idle"

Init == MainInit /\ PureIdle

\* main(): the button is clicked with the form's four values
Generate(s, t) ==
    /\ ses[s].pc \in {"idle", "done"}
    /\ nreq < MaxRequests
    /\ nreq' = nreq + 1
    /\ ses' = [ses EXCEPT ![s] = [Idle EXCEPT !.pc = "fetch", !.req = t]]
    /\ UNCHANGED <<cache, fs, nextDir, handed, renderedDirs, pureVars>>

\* main() after fetch_file returned (path, satellite, error): show the error, or
\* enter process_and_plot (temp_dir = dirname(file_path))
AfterFetch(r, path, satellite, error, wasHit, dirMade, rawThere) ==
    [r EXCEPT !.file_path = path, !.satellite = satellite, !.error_message = error,
              !.hit = wasHit, !.made = dirMade,
              !.prior = wasHit /\ path \in renderedDirs,
              !.rawAtEntry = rawThere,
              !.errorsShown = IF error # "None" THEN 1 ELSE 0,
              !.pc = IF error # "None" THEN "done"
                     ELSE IF path # 0 THEN "satpy" ELSE "done"]

\* st.cache_data: an entry for these four values exists and is younger than
\* ttl=3600, fetch_file's body is not run
FetchHit(s) ==
    LET e == cache[ses[s].req]
    IN /\ ses[s].pc = "fetch"
       /\ e.present
       /\ ses' = [ses EXCEPT ![s] = AfterFetch(@, e.path, e.satellite, e.error, TRUE, 0,
                                                   RawExists(e.path))]
       /\ handed' = IF e.path # 0 THEN [handed EXCEPT ![e.path] = @ + 1] ELSE handed
       /\ UNCHANGED <<cache, fs, nextDir, nreq, renderedDirs, pureVars>>

\* fetch_file's body returns an error tuple; temp_dir stays as it is
FetchFail(s, temp_dir, error) ==
    /\ fs' = [fs EXCEPT ![temp_dir] =
                [exists |-> TRUE, names |-> LeftBehind(error), img |-> HeaderOnlyFile]]
    /\ cache' = [cache EXCEPT ![ses[s].req] =
                [present |-> TRUE, path |-> 0, satellite |-> "None", error |-> error]]
    /\ ses' = [ses EXCEPT ![s] = AfterFetch(@, 0, "None", error, FALSE, temp_dir, FALSE)]
    /\ handed' = handed

\* fetch_file's body returns (local_img_path, satellite, None)
FetchOk(s, temp_dir, satellite, file) ==
    /\ fs' = [fs EXCEPT ![temp_dir] =
                [exists |-> TRUE, names |-> {"tar", "gz", "img"}, img |-> file]]
    /\ cache' = [cache EXCEPT ![ses[s].req] =
                [present |-> TRUE, path |-> temp_dir, satellite |-> satellite,
                 error |-> "None"]]
    /\ ses' = [ses EXCEPT ![s] = AfterFetch(@, temp_dir, satellite, "None", FALSE, temp_dir,
                                            TRUE)]
    /\ handed' = [handed EXCEPT ![temp_dir] = @ + 1]

\* fetch_file's body: mkdtemp, the date and coverage tests, the transfer and the
\* extraction; st.cache_data stores what it returns
RunFetchFile(s) ==
    LET t == ses[s].req
        temp_dir == nextDir + 1
        pre == FetchPrefix(t)
    IN /\ nextDir' = temp_dir
       /\ \/ /\ pre = "GeneralError"
             /\ FetchFail(s, temp_dir, "GeneralError")
          \/ /\ pre = "NoCoverage"
             /\ FetchFail(s, temp_dir, "OutOfCoverage")
          \/ /\ pre \in {"GMS5", "GOES9"}
             /\ \E error \in FetchErrors : FetchFail(s, temp_dir, error)
          \/ /\ pre \in {"GMS5", "GOES9"}
             /\ \E file \in MainFiles : FetchOk(s, temp_dir, pre, file)
       /\ UNCHANGED <<nreq, renderedDirs, pureVars>>

\* st.cache_data: no entry for these four values, the body runs
FetchMiss(s) ==
    /\ ses[s].pc = "fetch"
    /\ ~cache[ses[s].req].present
    /\ RunFetchFile(s)

\* st.cache_data: the entry is older than ttl=3600, the body runs again and
\* its result replaces the entry
FetchExpired(s) ==
    /\ ses[s].pc = "fetch"
    /\ cache[ses[s].req].present
    /\ RunFetchFile(s)

\* process_and_plot: Scene(...).load(["IR1"]) returns the grid
SatpyOk(s) ==
    /\ ses[s].pc = "satpy"
    /\ RawExists(ses[s].file_path)
    /\ ses' = [ses EXCEPT ![s] = [@ EXCEPT !.primary = "ok", !.ir1_data = SatpyGrid,
                                           !.pc = "render"]]
    /\ UNCHANGED <<cache, fs, nextDir, nreq, handed, renderedDirs, pureVars>>

\* process_and_plot: the external reader raises (always, when the file is gone)
SatpyRaise(s) ==
    /\ ses[s].pc = "satpy"
    /\ ses' = [ses EXCEPT ![s] = [@ EXCEPT !.primary = "raised", !.pc = "manual"]]
    /\ UNCHANGED <<cache, fs, nextDir, nreq, handed, renderedDirs, pureVars>>

\* ManualRead that carries on to the render steps when the decoder returned None
ManualRead_NoRaise(s) ==
    LET d == ses[s].file_path
        g == IF RawExists(d) THEN try_manual_reading(fs[d].img) ELSE None
    IN /\ ses[s].pc = "manual"
       /\ ses' = [ses EXCEPT ![s] =
                    [@ EXCEPT !.manualCalls = @ + 1, !.ir1_data = g,
                              !.manualNone = ~g.ok, !.pc = "render"]]
       /\ UNCHANGED <<cache, fs, nextDir, nreq, handed, renderedDirs, pureVars>>

\* process_and_plot's except branch: try_manual_reading, and ValueError on None
ManualRead(s) ==
    LET d == ses[s].file_path
        g == IF RawExists(d) THEN try_manual_reading(fs[d].img) ELSE None
    IN /\ ses[s].pc = "manual"
       /\ ses' = [ses EXCEPT ![s] =
                    [@ EXCEPT !.manualCalls = @ + 1, !.ir1_data = g,
                              !.manualNone = ~g.ok,
                              !.exc = IF g.ok THEN "None" ELSE "BothFailed",
                              !.pc = IF g.ok THEN "render" ELSE "fin_exists"]]
       /\ UNCHANGED <<cache, fs, nextDir, nreq, handed, renderedDirs, pureVars>>

\* process_and_plot: a step between the decode and img.save raises
RenderRaise(s, plotWritten) ==
    LET d == ses[s].file_path
    IN /\ ses[s].pc = "render"
       /\ plotWritten => DirExists(d)
       /\ fs' = IF plotWritten THEN [fs EXCEPT ![d].names = @ \cup {"plot"}] ELSE fs
       /\ ses' = [ses EXCEPT ![s] = [@ EXCEPT !.renders = @ + 1, !.exc = "RenderError",
                                              !.pc = "fin_exists"]]
       /\ UNCHANGED <<cache, nextDir, nreq, handed, renderedDirs, pureVars>>

\* process_and_plot: the plot and the final image are written to temp_dir
RenderOk(s) ==
    LET d == ses[s].file_path
    IN /\ ses[s].pc = "render"
       /\ DirExists(d)
       /\ fs' = [fs EXCEPT ![d].names = @ \cup {"plot", "final"}]
       /\ ses' = [ses EXCEPT ![s] = [@ EXCEPT !.renders = @ + 1, !.ret = "final",
                                              !.pc = "fin_exists"]]
       /\ UNCHANGED <<cache, nextDir, nreq, handed, renderedDirs, pureVars>>

\* finally: if os.path.exists(file_path)
FinallyExists(s) ==
    /\ ses[s].pc = "fin_exists"
    /\ ses' = [ses EXCEPT ![s].pc =
                 IF RawExists(ses[s].file_path) THEN "fin_remove" ELSE "fin_rmtree"]
    /\ UNCHANGED <<cache, fs, nextDir, nreq, handed, renderedDirs, pureVars>>

\* process_and_plot hands its result, or its exception, to main()
Leave(r) == [r EXCEPT !.pc = "returned"]

\* finally: os.remove(file_path); when it raises, the bare except passes and the
\* rmtree below it is skipped
FinallyRemove(s) ==
    LET d == ses[s].file_path
    IN /\ ses[s].pc = "fin_remove"
       /\ IF RawExists(d)
          THEN /\ fs' = [fs EXCEPT ![d].names = @ \ {"img"}]
               /\ ses' = [ses EXCEPT ![s].pc = "fin_rmtree"]
          ELSE /\ fs' = fs
               /\ ses' = [ses EXCEPT ![s] = Leave(@)]
       /\ renderedDirs' = IF ~RawExists(d) /\ ses[s].ret # "None"
                          THEN renderedDirs \cup {d} ELSE renderedDirs
       /\ UNCHANGED <<cache, nextDir, nreq, handed, pureVars>>

\* finally: if os.path.exists(temp_dir): shutil.rmtree(temp_dir, ignore_errors=True)
FinallyRmtree(s) ==
    LET d == ses[s].file_path
    IN /\ ses[s].pc = "fin_rmtree"
       /\ fs' = IF DirExists(d) THEN [fs EXCEPT ![d] = NoDir] ELSE fs
       /\ ses' = [ses EXCEPT ![s] = Leave(@)]
       /\ renderedDirs' = IF ses[s].ret # "None"
                          THEN renderedDirs \cup {d} ELSE renderedDirs
       /\ UNCHANGED <<cache, nextDir, nreq, handed, pureVars>>

\* main(): st.image and open() read the returned path
DisplayImage(s) ==
    LET d == ses[s].file_path
    IN /\ ses[s].pc = "returned"
       /\ ses[s].exc = "None"
       /\ DirExists(d) /\ "final" \in fs[d].names
       /\ ses' = [ses EXCEPT ![s] = [@ EXCEPT !.shown = TRUE, !.pc = "done"]]
       /\ UNCHANGED <<cache, fs, nextDir, nreq, handed, renderedDirs, pureVars>>

\* main(): except Exception: st.error, for an exception of process_and_plot or
\* of reading a path that is gone
DisplayError(s) ==
    LET d == ses[s].file_path
    IN /\ ses[s].pc = "returned"
       /\ ses[s].exc # "None" \/ ~(DirExists(d) /\ "final" \in fs[d].names)
       /\ ses' = [ses EXCEPT ![s] = [@ EXCEPT !.errorsShown = @ + 1, !.pc = "done"]]
       /\ UNCHANGED <<cache, fs, nextDir, nreq, handed, renderedDirs, pureVars>>

Next ==
    \/ \E s \in Sessions, t \in MainTimes : Generate(s, t)
    \/ \E s \in Sessions : FetchHit(s)
    \/ \E s \in Sessions : FetchMiss(s)
    \/ \E s \in Sessions : FetchExpired(s)
    \/ \E s \in Sessions : SatpyOk(s)
    \/ \E s \in Sessions : SatpyRaise(s)
    \/ \E s \in Sessions : ManualRead(s)
    \/ \E s \in Sessions, w \in BOOLEAN : RenderRaise(s, w)
    \/ \E s \in Sessions : RenderOk(s)
    \/ \E s \in Sessions : FinallyExists(s)
    \/ \E s \in Sessions : FinallyRemove(s)
    \/ \E s \in Sessions : FinallyRmtree(s)
    \/ \E s \in Sessions : DisplayImage(s)
    \/ \E s \in Sessions : DisplayError(s)

Spec == Init /\ [][Next]_vars

----------------------------------------------------------------------------
(* SpecDecode: try_manual_reading on one raw file *)

\* the two bytes of a header field: 0, 99, 100, 101, 2366, 5000, 5001, 65535
HeaderWords == {<<0, 0>>, <<0, 99>>, <<0, 100>>, <<0, 101>>, <<9, 62>>,
                <<19, 136>>, <<19, 137>>, <<255, 255>>}
Headers == {w \o h : w \in HeaderWords, h \in HeaderWords}

\* widths and heights whose products and multiples the file sizes straddle
Dims == {MIN_DIM, MIN_DIM + 1, DEFAULT_SIZE, MAX_DIM}
Avails ==
    (0..MaxSmallAvail) \cup
    {w * k + e : w \in Dims, k \in Dims \cup {MIN_HEIGHT - 1}, e \in (0 - MaxSlack)..MaxSlack}
Lens == {0, HEADER_PROBE, HEADER_PROBE + 1, header_size - 1} \cup {header_size + a : a \in Avails}

\* a file too short to hold bytes 8..11 has no header field to vary
DecodeFiles == {f \in [len : Lens, hdr : Headers] : f.len >= HEADER_PROBE \/ f.hdr = ZeroHdr}

DecodeInit ==
    /\ MainInit
    /\ rIn = NoTime
    /\ rOut = "idle"
    /\ dIn \in DecodeFiles
    /\ dOut = NotDecoded

Decode ==
    /\ ~dOut.done
    /\ dOut' = [done |-> TRUE, grid |-> try_manual_reading(dIn)]
    /\ UNCHANGED <<dIn, rIn, rOut>>
    /\ UNCHANGED mainVars

SpecDecode == DecodeInit /\ [][Decode]_vars

----------------------------------------------------------------------------
(* SpecResolve: the head of fetch_file on one form input *)

FormInputs == (YEAR_MIN..YEAR_MAX) \X (1..MONTH_MAX) \X (1..DAY_MAX) \X (0..HOUR_MAX)

ResolveInit ==
    /\ MainInit
    /\ dIn = HeaderOnlyFile
    /\ dOut = NotDecoded
    /\ rIn \in FormInputs
    /\ rOut = "idle"

Resolve ==
    /\ rOut = "idle"
    /\ rOut' = FetchPrefix(rIn)
    /\ UNCHANGED <<rIn, dIn, dOut>>
    /\ UNCHANGED mainVars

SpecResolve == ResolveInit /\ [][Resolve]_vars

----------------------------------------------------------------------------
(* Properties of try_manual_reading, under SpecDecode *)

Avail(f) == f.len - header_size
DeclaredWidth(f) == 256 * f.hdr[1] + f.hdr[2]
DeclaredHeight(f) == 256 * f.hdr[3] + f.hdr[4]
Implausible(f) ==
    \/ DeclaredWidth(f) < 100 \/ DeclaredWidth(f) > 5000
    \/ DeclaredHeight(f) < 100 \/ DeclaredHeight(f) > 5000

\* C1: a file with at least one byte after the 352-byte header, whatever its
\* header says, decodes to a grid of height >= 1 and width >= 1 whose
\* height*width is the number of samples consumed, which is at most the number
\* of bytes after the header.
DecodeFitsBuffer ==
    (dOut.done /\ dIn.len > 352) =>
        /\ dOut.grid.ok
        /\ dOut.grid.height >= 1
        /\ dOut.grid.width >= 1
        /\ dOut.grid.height * dOut.grid.width = dOut.grid.consumed
        /\ dOut.grid.consumed <= dIn.len - 352

\* a truncated file: fewer bytes than the plausible declared geometry needs, and
\* too few for 100 rows
DecodeFitsBufferWitness ==
    /\ dOut.done
    /\ ~Implausible(dIn)
    /\ Avail(dIn) >= 1
    /\ Avail(dIn) < DeclaredWidth(dIn)
    /\ dOut.grid.ok

\* C5: try_manual_reading returns no grid exactly when the file is no longer
\* than 352 bytes; a longer file yields a grid whatever the header holds, and
\* the geometry is 2366 x 2366 when a declared dimension is below 100 or above
\* 5000 (seen on files that hold the whole image of the geometry in effect).
DecodeFailsOnlyWithoutPixels ==
    dOut.done =>
        /\ dOut.grid.ok <=> dIn.len > 352
        /\ (Implausible(dIn) /\ Avail(dIn) >= 2366 * 2366) =>
              (dOut.grid.height = 2366 /\ dOut.grid.width = 2366)
        /\ (~Implausible(dIn) /\ Avail(dIn) >= DeclaredWidth(dIn) * DeclaredHeight(dIn)) =>
              (dOut.grid.height = DeclaredHeight(dIn) /\ dOut.grid.width = DeclaredWidth(dIn))

\* a header declaring 100 x 99 on a file that holds 2366 x 2366 samples
DecodeFailsOnlyWithoutPixelsWitness ==
    /\ dOut.done
    /\ DeclaredWidth(dIn) = 100
    /\ DeclaredHeight(dIn) = 99
    /\ Avail(dIn) >= 2366 * 2366
    /\ dOut.grid.ok
    /\ dOut.grid.width = 2366

\* C6: when the bytes after the header are fewer than width*height (the
\* geometry in effect after the header test), the grid is square with side
\* floor(sqrt(available)) if available \div width is below 100, and otherwise
\* keeps that width and has available \div width rows.
ShortFileGeometry ==
    LET width == HeaderGeometry(dIn)[1]
        height == HeaderGeometry(dIn)[2]
        g == dOut.grid
    IN (dOut.done /\ dIn.len > 352 /\ Avail(dIn) < width * height) =>
          /\ g.ok
          /\ IF Avail(dIn) \div width < 100
             THEN /\ g.width = g.height
                  /\ g.width * g.width <= Avail(dIn)
                  /\ Avail(dIn) < (g.width + 1) * (g.width + 1)
             ELSE /\ g.width = width
                  /\ g.height = Avail(dIn) \div width

\* a short file whose size is no perfect square and rounds up: 99 rows of 100
\* less one byte gives side 99, not 100
ShortFileGeometryWitness ==
    /\ dOut.done
    /\ DeclaredWidth(dIn) = 100
    /\ DeclaredHeight(dIn) = 100
    /\ Avail(dIn) = 9899
    /\ dOut.grid.width = 99
    /\ dOut.grid.height = 99

----------------------------------------------------------------------------
(* Coverage resolution, under SpecResolve *)

LeapsBefore(y) == (y - 1) \div 4 - (y - 1) \div 100 + (y - 1) \div 400

RECURSIVE DaysBeforeMonth(_, _)
DaysBeforeMonth(y, m) == IF m = 1 THEN 0 ELSE DaysBeforeMonth(y, m - 1) + DaysInMonth(y, m - 1)

\* hours since 1995-01-01T00
HourIndex(t) ==
    (365 * (t[1] - 1995) + LeapsBefore(t[1]) - LeapsBefore(1995)
       + DaysBeforeMonth(t[1], t[2]) + t[3] - 1) * 24 + t[4]

\* C3: every hour from 1995-06-13T06 to 2003-05-22T00 inclusive resolves to
\* GMS5, every hour from 2003-05-22T01 to 2005-06-28T02 inclusive to GOES9,
\* and every other hour, 1995-06-13T05 and 2005-06-28T03 among them, to the
\* out-of-coverage error.
CoverageWindows ==
    LET h == HourIndex(rIn)
        inA == HourIndex(<<1995, 6, 13, 6>>) <= h /\ h <= HourIndex(<<2003, 5, 22, 0>>)
        inB == HourIndex(<<2003, 5, 22, 1>>) <= h /\ h <= HourIndex(<<2005, 6, 28, 2>>)
    IN (rOut # "idle" /\ ValidDate(rIn)) =>
          /\ inA => rOut = "GMS5"
          /\ inB => rOut = "GOES9"
          /\ (~inA /\ ~inB) => rOut = "NoCoverage"
          /\ rIn \in {<<1995, 6, 13, 5>>, <<2005, 6, 28, 3>>} => rOut = "NoCoverage"
          /\ ~(inA /\ inB)

\* the last hour of the first window
CoverageWindowsWitness ==
    /\ rIn = <<2003, 5, 22, 0>>
    /\ rOut = "GMS5"

----------------------------------------------------------------------------
(* Properties of the script, under Spec *)

\* C7: the manual decoder runs only after the external reader raised, and at
\* most once per request; a render step runs only on a grid one of the two
\* produced; when both fail the request shows exactly one error and no render
\* step has run.
DecodeOrder ==
    \A s \in Sessions :
        LET r == ses[s]
        IN /\ r.manualCalls <= 1
           /\ (r.manualCalls = 1 \/ r.pc = "manual") => r.primary = "raised"
           /\ (r.renders > 0 \/ r.pc = "render") =>
                 /\ r.ir1_data.ok
                 /\ r.primary = "ok" \/ (r.manualCalls = 1 /\ ~r.manualNone)
           /\ (r.pc = "done" /\ r.primary = "raised" /\ r.manualNone) =>
                 /\ r.errorsShown = 1
                 /\ r.exc = "BothFailed"
                 /\ r.renders = 0
                 /\ r.ret = "None"

\* a request on which both strategies failed has ended
DecodeOrderWitness ==
    \E s \in Sessions :
        /\ ses[s].pc = "done"
        /\ ses[s].primary = "raised"
        /\ ses[s].manualCalls = 1
        /\ ses[s].manualNone
        /\ ses[s].errorsShown = 1

\* C2: when process_and_plot, entered with the raw file in place, hands back
\* its result or its exception, the raw file and its scratch directory are gone.
ScratchRemovedOnExit ==
    \A s \in Sessions :
        (ses[s].pc = "returned" /\ ses[s].rawAtEntry) =>
            (~RawExists(ses[s].file_path) /\ ~DirExists(ses[s].file_path))

\* C2, the case the race leaves out: a request that is the only one handed its
\* path leaves process_and_plot with the raw file and the directory gone (holds).
ScratchRemovedWhenUnshared ==
    \A s \in Sessions :
        (ses[s].pc = "returned" /\ ses[s].rawAtEntry /\ handed[ses[s].file_path] = 1) =>
            (~RawExists(ses[s].file_path) /\ ~DirExists(ses[s].file_path))

\* C4: a request served from the cache entry of an earlier request that
\* returned an image also returns an image.
RepeatRendersAgain ==
    \A s \in Sessions :
        (ses[s].pc = "done" /\ ses[s].prior) => ses[s].ret # "None"

\* C8: no scratch directory, and so no raw-file path, is handed to two requests.
ScratchNotShared == \A d \in DirIds : handed[d] <= 1

\* C9: once a request has ended in a fetch failure, the directory fetch_file
\* made for it is gone.
FetchFailureLeavesNoScratch ==
    \A s \in Sessions :
        (ses[s].pc = "done" /\ ses[s].error_message # "None" /\ ses[s].made # 0) =>
            ~DirExists(ses[s].made)

\* C10: when process_and_plot has returned the final image path, the file at
\* that path exists.
ReturnedImageExists ==
    \A s \in Sessions :
        (ses[s].pc = "returned" /\ ses[s].exc = "None" /\ ses[s].ret # "None") =>
            (DirExists(ses[s].file_path) /\ "final" \in fs[ses[s].file_path].names)

====
